---- MODULE Spec2Model ----
(***************************************************************************)
(* Model of download_dataset.py: the download worker (download_task), the  *)
(* size probe (get_remote_size) and the orchestrator (main) with its       *)
(* thread pool, over a POSIX file system (paths name inodes; an open       *)
(* handle keeps writing to its inode after the path is unlinked or         *)
(* renamed).                                                               *)
(* The resolver (collect_tasks, read_url_map, split_from_manifest) is      *)
(* modelled over source trees whose names and lines are strings of         *)
(* characters (SpecCollect).                                               *)
(***************************************************************************)
EXTENDS Integers, Sequences, FiniteSets, TLC

\* ---------------------------------------------------------------- bounds
MaxTasks == 2
MaxBody == 1
MaxRuns == 2

\* ------------------------------------------------------------ input sets
None == -1
\* Chunk of a file that was there before this invocation; chunk k of the
\* body of url u is written u, a hole is written 0.
OldChunk == -2
URLs == {1, 2}
Dests == {1, 2}
Sizes == 0 .. MaxBody

\* A manifest line resolves to a task (url, output_path) or to a missing url.
\* Two lines may name the same output_path (a tile listed twice, or two
\* regions whose sanitized prefixes coincide).
TaskKinds == {[url |-> 1, output_path |-> 1],
              [url |-> 1, output_path |-> 2],
              [url |-> 2, output_path |-> 1]}

\* Exceptions the standard library raises out of urlopen / response.read.
\* URLError: connection failure or non-success status (HTTPError).
\* TimeoutError: socket timeout while waiting for or reading the response.
\* HTTPException: http.client errors (BadStatusLine, IncompleteRead).
Faults == {"URLError", "TimeoutError", "HTTPException"}

VARIABLES
  tasks,        \* sequence of task records, as returned by collect_tasks
  missing_urls, \* number of entries of the resolver's missing list
  threads,      \* args.threads
  remote,       \* per url: hdr = Content-Length of HEAD (None if absent), body = chunks GET delivers
  run,          \* number of the current invocation of main
  taskpc,       \* per task: position of its download_task call
  remote_size,  \* per task: local remote_size
  exc,          \* per task: str(exc) of the exception being handled
  handle,       \* per task: inode its open staging handle writes to (0 = none)
  pos,          \* per task: write offset of its handle, in chunks
  final,        \* per destination: inode at output_path (0 = no file)
  part,         \* per destination: inode at output_path + ".part" (0 = no file)
  files,        \* per inode: its content, a sequence of chunks
  failures,     \* the shared failure list
  lock,         \* holder of the threading.Lock (0 = free)
  mainpc,       \* position of main
  log_file,     \* the file at args.log_file: whether it exists, and its lines
  summary,      \* lines printed by main in this run
  prev,         \* per task: how its call ended in the previous run
  touched,      \* tasks that have written into the file at a final path
  ct            \* the call of collect_tasks: its position, locals and input

vars == <<tasks, missing_urls, threads, remote, run, taskpc, remote_size, exc,
          handle, pos, final, part, files, failures, lock, mainpc, log_file,
          summary, prev, touched, ct>>

T == DOMAIN tasks
NumDests == Cardinality(Dests)
\* Inode names: a file created by task t in this run is inode 2*NumDests + t;
\* files left by earlier runs are named after the path that holds them.
Inodes == 1 .. (2 * NumDests + MaxTasks)
NewInode(t) == 2 * NumDests + t

url(t) == tasks[t].url
output_path(t) == tasks[t].output_path

Active == {"stale", "rm", "open", "write", "verify", "replace",
           "h_exists", "h_remove", "h_lock", "h_append"}
Finished == {"skipped", "ok", "failed", "raised", "cancelled"}
Running == Cardinality({t \in T : taskpc[t] \in Active})
AllFinished == \A t \in T : taskpc[t] \in Finished

\* ------------------------------------------------------------ file system
\* os.path.getsize
getsize(i) == Len(files[i])

\* handle.write(chunk) at offset p: extends the file, leaving a hole of
\* zero chunks when the file was truncated below p by another open().
WriteAt(content, p, chunk) ==
  IF p < Len(content)
    THEN [content EXCEPT ![p + 1] = chunk]
    ELSE content \o [k \in 1 .. (p - Len(content)) |-> 0] \o <<chunk>>

\* The complete body of a url, as a completed transfer delivers it.
Body(u) == [k \in 1 .. remote[u].body |-> u]

\* New file-system state; an inode no path and no handle refers to is gone.
SetFS(finalN, partN, handleN, filesN) ==
  /\ final' = finalN
  /\ part' = partN
  /\ handle' = handleN
  /\ files' = [i \in Inodes |->
                 IF \/ \E d \in Dests : finalN[d] = i \/ partN[d] = i
                    \/ \E t \in T : handleN[t] = i
                   THEN filesN[i] ELSE <<>>]

\* ------------------------------------------------------- get_remote_size
\* f is what the HEAD request does: "ok" or the exception it raises.
get_remote_size(u, f) ==
  IF f = "ok" THEN [raises |-> "", value |-> remote[u].hdr]
              ELSE [raises |-> f, value |-> None]

\* except urllib.error.URLError (line 142)
ProbeCaught == {"URLError"}
\* except (urllib.error.URLError, IOError, TimeoutError) (line 171)
DownloadCaught == {"URLError", "IOError", "TimeoutError", "size mismatch"}

\* The skip test with an empty file accepted when the size is unknown.
SkipsEmpty(d, size) ==
  /\ final[d] # 0
  /\ \/ size = None /\ getsize(final[d]) >= 0
     \/ size # None /\ getsize(final[d]) = size

\* The skip test of lines 145-150.
Skips(d, size) ==
  /\ final[d] # 0
  /\ \/ size = None /\ getsize(final[d]) > 0
     \/ size # None /\ getsize(final[d]) = size

\* Raising e inside the try block of download_task.
Raise(t, e) ==
  /\ exc' = [exc EXCEPT ![t] = e]
  /\ taskpc' = [taskpc EXCEPT ![t] =
                  IF e \in DownloadCaught THEN "h_exists" ELSE "raised"]

\* ---------------------------------------------------------- download_task
\* Begin with a thread for every submitted task, whatever args.threads is.
BeginUnbounded(t) ==
  /\ mainpc \in {"as_completed", "shutdown"}
  /\ taskpc[t] = "queued"
  /\ \A s \in T : s < t => taskpc[s] # "queued"
  /\ \E f \in Faults \cup {"ok"} :
       LET probe == get_remote_size(url(t), f)
           size == probe.value
       IN IF probe.raises # "" /\ probe.raises \notin ProbeCaught
            THEN /\ taskpc' = [taskpc EXCEPT ![t] = "raised"]
                 /\ exc' = [exc EXCEPT ![t] = probe.raises]
                 /\ UNCHANGED remote_size
            ELSE /\ remote_size' = [remote_size EXCEPT ![t] = size]
                 /\ taskpc' = [taskpc EXCEPT ![t] =
                      IF Skips(output_path(t), size) THEN "skipped" ELSE "stale"]
                 /\ UNCHANGED exc
  /\ UNCHANGED <<tasks, missing_urls, threads, remote, run, handle, pos, final,
                 part, files, failures, lock, mainpc, log_file, summary, prev,
                 touched, ct>>

\* A pool thread takes the next queued task (FIFO) and runs lines 134-154 up
\* to the skip test: makedirs, the size probe and the test of output_path.
Begin(t) ==
  /\ mainpc \in {"as_completed", "shutdown"}
  /\ taskpc[t] = "queued"
  /\ \A s \in T : s < t => taskpc[s] # "queued"
  /\ Running < threads
  /\ \E f \in Faults \cup {"ok"} :
       LET probe == get_remote_size(url(t), f)
           size == probe.value
       IN IF probe.raises # "" /\ probe.raises \notin ProbeCaught
            THEN /\ taskpc' = [taskpc EXCEPT ![t] = "raised"]
                 /\ exc' = [exc EXCEPT ![t] = probe.raises]
                 /\ UNCHANGED remote_size
            ELSE /\ remote_size' = [remote_size EXCEPT ![t] = size]
                 /\ taskpc' = [taskpc EXCEPT ![t] =
                      IF Skips(output_path(t), size) THEN "skipped" ELSE "stale"]
                 /\ UNCHANGED exc
  /\ UNCHANGED <<tasks, missing_urls, threads, remote, run, handle, pos, final,
                 part, files, failures, lock, mainpc, log_file, summary, prev,
                 touched, ct>>

\* line 153: if os.path.exists(temp_path)
Stale(t) ==
  /\ taskpc[t] = "stale"
  /\ taskpc' = [taskpc EXCEPT ![t] =
                  IF part[output_path(t)] # 0 THEN "rm" ELSE "open"]
  /\ UNCHANGED <<tasks, missing_urls, threads, remote, run, remote_size, exc,
                 handle, pos, final, part, files, failures, lock, mainpc,
                 log_file, summary, prev, touched, ct>>

\* line 154: os.remove(temp_path), outside the try block
Rm(t) ==
  LET d == output_path(t) IN
  /\ taskpc[t] = "rm"
  /\ IF part[d] # 0
       THEN /\ SetFS(final, [part EXCEPT ![d] = 0], handle, files)
            /\ taskpc' = [taskpc EXCEPT ![t] = "open"]
            /\ UNCHANGED exc
       ELSE /\ taskpc' = [taskpc EXCEPT ![t] = "raised"]
            /\ exc' = [exc EXCEPT ![t] = "IOError"]
            /\ UNCHANGED <<final, part, handle, files>>
  /\ UNCHANGED <<tasks, missing_urls, threads, remote, run, remote_size, pos,
                 failures, lock, mainpc, log_file, summary, prev, touched, ct>>

\* lines 157-158: urlopen(url) and open(temp_path, "wb")
Open(t) ==
  LET d == output_path(t)
      i == IF part[d] # 0 THEN part[d] ELSE NewInode(t)
  IN
  /\ taskpc[t] = "open"
  /\ \E f \in Faults \cup {"ok"} :
       IF f # "ok"
         THEN /\ Raise(t, f)
              /\ UNCHANGED <<final, part, handle, files, pos>>
         ELSE /\ SetFS(final, [part EXCEPT ![d] = i],
                       [handle EXCEPT ![t] = i], [files EXCEPT ![i] = <<>>])
              /\ pos' = [pos EXCEPT ![t] = 0]
              /\ taskpc' = [taskpc EXCEPT ![t] = "write"]
              /\ UNCHANGED exc
  /\ UNCHANGED <<tasks, missing_urls, threads, remote, run, remote_size,
                 failures, lock, mainpc, log_file, summary, prev, touched, ct>>

\* Exceptions response.read raises while body remains.
ReadFaults == {"TimeoutError", "HTTPException"}

\* lines 159-163: one round of the copy loop; leaving it closes the handle
Write(t) ==
  LET u == url(t)
      h == handle[t]
      closed == [handle EXCEPT ![t] = 0]
  IN
  /\ taskpc[t] = "write"
  /\ IF pos[t] < remote[u].body
       THEN \/ /\ SetFS(final, part, handle,
                        [files EXCEPT ![h] = WriteAt(files[h], pos[t], u)])
               /\ pos' = [pos EXCEPT ![t] = pos[t] + 1]
               /\ touched' = IF \E d \in Dests : final[d] = h
                               THEN touched \cup {t} ELSE touched
               /\ UNCHANGED <<taskpc, exc>>
            \/ \E f \in ReadFaults :
                 /\ Raise(t, f)
                 /\ SetFS(final, part, closed, files)
                 /\ pos' = [pos EXCEPT ![t] = 0]
                 /\ UNCHANGED touched
       ELSE /\ SetFS(final, part, closed, files)
            /\ pos' = [pos EXCEPT ![t] = 0]
            /\ taskpc' = [taskpc EXCEPT ![t] =
                 IF remote_size[t] # None THEN "verify" ELSE "replace"]
            /\ UNCHANGED <<exc, touched>>
  /\ UNCHANGED <<tasks, missing_urls, threads, remote, run, remote_size,
                 failures, lock, mainpc, log_file, summary, prev, ct>>

\* lines 164-169: the size check, remote_size known
Verify(t) ==
  LET d == output_path(t) IN
  /\ taskpc[t] = "verify"
  /\ IF part[d] = 0
       THEN Raise(t, "IOError")
       ELSE IF getsize(part[d]) # remote_size[t]
              THEN Raise(t, "size mismatch")
              ELSE /\ taskpc' = [taskpc EXCEPT ![t] = "replace"]
                   /\ UNCHANGED exc
  /\ UNCHANGED <<tasks, missing_urls, threads, remote, run, remote_size,
                 handle, pos, final, part, files, failures, lock, mainpc,
                 log_file, summary, prev, touched, ct>>

\* line 170: os.replace(temp_path, output_path), then return
Replace(t) ==
  LET d == output_path(t) IN
  /\ taskpc[t] = "replace"
  /\ IF part[d] = 0
       THEN /\ Raise(t, "IOError")
            /\ UNCHANGED <<final, part, handle, files>>
       ELSE /\ SetFS([final EXCEPT ![d] = part[d]], [part EXCEPT ![d] = 0],
                     handle, files)
            /\ taskpc' = [taskpc EXCEPT ![t] = "ok"]
            /\ UNCHANGED exc
  /\ UNCHANGED <<tasks, missing_urls, threads, remote, run, remote_size, pos,
                 failures, lock, mainpc, log_file, summary, prev, touched, ct>>

\* line 172: if os.path.exists(temp_path)
HExists(t) ==
  /\ taskpc[t] = "h_exists"
  /\ taskpc' = [taskpc EXCEPT ![t] =
                  IF part[output_path(t)] # 0 THEN "h_remove" ELSE "h_lock"]
  /\ UNCHANGED <<tasks, missing_urls, threads, remote, run, remote_size, exc,
                 handle, pos, final, part, files, failures, lock, mainpc,
                 log_file, summary, prev, touched, ct>>

\* line 173: os.remove(temp_path) inside the except clause
HRemove(t) ==
  LET d == output_path(t) IN
  /\ taskpc[t] = "h_remove"
  /\ IF part[d] # 0
       THEN /\ SetFS(final, [part EXCEPT ![d] = 0], handle, files)
            /\ taskpc' = [taskpc EXCEPT ![t] = "h_lock"]
            /\ UNCHANGED exc
       ELSE /\ taskpc' = [taskpc EXCEPT ![t] = "raised"]
            /\ exc' = [exc EXCEPT ![t] = "IOError"]
            /\ UNCHANGED <<final, part, handle, files>>
  /\ UNCHANGED <<tasks, missing_urls, threads, remote, run, remote_size, pos,
                 failures, lock, mainpc, log_file, summary, prev, touched, ct>>

\* line 174: with lock (acquire)
HLock(t) ==
  /\ taskpc[t] = "h_lock"
  /\ lock = 0
  /\ lock' = t
  /\ taskpc' = [taskpc EXCEPT ![t] = "h_append"]
  /\ UNCHANGED <<tasks, missing_urls, threads, remote, run, remote_size, exc,
                 handle, pos, final, part, files, failures, mainpc, log_file,
                 summary, prev, touched, ct>>

\* line 175: failures.append((region, url, str(exc))), release, return
HAppend(t) ==
  /\ taskpc[t] = "h_append"
  /\ failures' = Append(failures,
                        [task |-> t, url |-> url(t), reason |-> exc[t]])
  /\ lock' = 0
  /\ taskpc' = [taskpc EXCEPT ![t] = "failed"]
  /\ UNCHANGED <<tasks, missing_urls, threads, remote, run, remote_size, exc,
                 handle, pos, final, part, files, mainpc, log_file, summary,
                 prev, touched, ct>>

\* ------------------------------------------------------------------ main
\* As MainResultRaises, but the shutdown cancels the tasks still queued
\* (shutdown(wait=True, cancel_futures=True)).
MainResultRaisesCancel ==
  /\ mainpc = "as_completed"
  /\ \E t \in T : taskpc[t] = "raised"
  /\ mainpc' = "shutdown"
  /\ taskpc' = [t \in T |-> IF taskpc[t] = "queued" THEN "cancelled"
                                                    ELSE taskpc[t]]
  /\ UNCHANGED <<tasks, missing_urls, threads, remote, run, remote_size,
                 exc, handle, pos, final, part, files, failures, lock, log_file,
                 summary, prev, touched, ct>>

\* line 187: future.result() re-raises the exception of a finished task; the
\* exception leaves the with block, whose exit is shutdown(wait=True).
MainResultRaises ==
  /\ mainpc = "as_completed"
  /\ \E t \in T : taskpc[t] = "raised"
  /\ mainpc' = "shutdown"
  /\ UNCHANGED <<tasks, missing_urls, threads, remote, run, taskpc, remote_size,
                 exc, handle, pos, final, part, files, failures, lock, log_file,
                 summary, prev, touched, ct>>

\* shutdown(wait=True) returns once every submitted task has run; the
\* exception then ends main with a traceback.
MainExit ==
  /\ mainpc = "shutdown"
  /\ AllFinished
  /\ mainpc' = "crashed"
  /\ UNCHANGED <<tasks, missing_urls, threads, remote, run, taskpc, remote_size,
                 exc, handle, pos, final, part, files, failures, lock, log_file,
                 summary, prev, touched, ct>>

\* line 192: (region, "MISSING_URL:<tile>", "not found"); the record of a
\* missing url belongs to no task and carries no url.
MissingRecord == [task |-> 0, url |-> 0, reason |-> "not found"]
MissingRecords == [k \in 1 .. missing_urls |-> MissingRecord]

\* args.log_file does not exist.
NoLog == [exists |-> FALSE, lines |-> <<>>]

\* lines 186-200: every future has a result; append the missing urls, write
\* the log when there are failures, print the summary.
MainReport ==
  LET all == failures \o MissingRecords IN
  /\ mainpc = "as_completed"
  /\ AllFinished
  /\ \A t \in T : taskpc[t] # "raised"
  /\ failures' = all
  /\ log_file' = IF all # <<>> THEN [exists |-> TRUE, lines |-> all]
                                 ELSE log_file
  /\ summary' = Append(summary, IF all # <<>> THEN Len(all) ELSE 0)
  /\ mainpc' = "done"
  /\ UNCHANGED <<tasks, missing_urls, threads, remote, run, taskpc, remote_size,
                 exc, handle, pos, final, part, files, lock, prev, touched, ct>>

\* The tool is invoked again with the same manifests, options and output
\* root; the files and the log of the earlier run are still there.
NewRun ==
  /\ mainpc \in {"done", "crashed"}
  /\ run < MaxRuns
  /\ run' = run + 1
  /\ prev' = [t \in T |-> [pc |-> taskpc[t], size |-> remote_size[t]]]
  /\ taskpc' = [t \in T |-> "queued"]
  /\ remote_size' = [t \in T |-> None]
  /\ exc' = [t \in T |-> ""]
  /\ final' = [d \in Dests |-> IF final[d] # 0 THEN d ELSE 0]
  /\ part' = [d \in Dests |-> IF part[d] # 0 THEN NumDests + d ELSE 0]
  /\ files' = [i \in Inodes |->
                 IF i \in Dests /\ final[i] # 0 THEN files[final[i]]
                 ELSE IF i - NumDests \in Dests /\ part[i - NumDests] # 0
                   THEN files[part[i - NumDests]]
                 ELSE <<>>]
  /\ failures' = <<>>
  /\ summary' = <<>>
  /\ mainpc' = "as_completed"
  /\ touched' = {}
  /\ UNCHANGED <<tasks, missing_urls, threads, remote, handle, pos, lock,
                 log_file, ct>>

\* collect_tasks has returned: main is in the pool.
NotCollecting == [pc |-> "returned"]

\* ------------------------------------------------------------ collect_tasks
\* The task lists collect_tasks can return, up to the naming of urls and
\* output paths: the first task is (url 1, path 1).
TaskLists ==
  {s \in UNION {[1 .. n -> TaskKinds] : n \in 0 .. MaxTasks} :
     s # <<>> => s[1] = [url |-> 1, output_path |-> 1]}

Remotes == [hdr : Sizes \cup {None}, body : Sizes]

\* A file left at a path before this invocation.
OldFile(n) == [k \in 1 .. n |-> OldChunk]

\* What main has built when it enters the pool (lines 179-185).
InitRun ==
  /\ tasks \in TaskLists
  /\ missing_urls \in 0 .. (MaxTasks - Len(tasks))
  /\ threads \in 1 .. MaxTasks
  /\ remote \in [URLs -> Remotes]
  /\ \A u \in URLs : (\A t \in T : url(t) # u) =>
                        remote[u] = [hdr |-> None, body |-> 0]
  /\ run = 1
  /\ taskpc = [t \in T |-> "queued"]
  /\ remote_size = [t \in T |-> None]
  /\ exc = [t \in T |-> ""]
  /\ handle = [t \in T |-> 0]
  /\ pos = [t \in T |-> 0]
  /\ failures = <<>>
  /\ lock = 0
  /\ mainpc = "as_completed"
  /\ summary = <<>>
  /\ prev = [t \in T |-> [pc |-> "none", size |-> None]]
  /\ touched = {}

\* One invocation over an output root and a log path in any state earlier
\* invocations (finished, failed or killed) can have left them in.
Init ==
  /\ InitRun
  /\ final \in [Dests -> {0} \cup Dests]
  /\ part \in [Dests -> {0} \cup {NumDests + d : d \in Dests}]
  /\ \A d \in Dests :
       /\ final[d] \in {0, d}
       /\ part[d] \in {0, NumDests + d}
       /\ (\A t \in T : output_path(t) # d) => final[d] = 0 /\ part[d] = 0
  /\ files \in [Inodes -> {OldFile(n) : n \in Sizes}]
  /\ \A i \in Inodes :
       IF \E d \in Dests : part[d] = i THEN files[i] = OldFile(1)
       ELSE IF \E d \in Dests : final[d] = i THEN TRUE
       ELSE files[i] = <<>>
  /\ log_file \in {NoLog, [exists |-> TRUE, lines |-> <<MissingRecord>>]}
  /\ ct = NotCollecting

\* The first invocation over an empty output root, no log file; the
\* manifests name tiles of one url (a tile listed twice, or in two splits).
InitFresh ==
  /\ InitRun
  /\ \A t \in T : url(t) = 1
  /\ final = [d \in Dests |-> 0]
  /\ part = [d \in Dests |-> 0]
  /\ files = [i \in Inodes |-> <<>>]
  /\ log_file = NoLog
  /\ ct = NotCollecting

Next ==
  \/ \E t \in T : Begin(t)
  \/ \E t \in T : Stale(t)
  \/ \E t \in T : Rm(t)
  \/ \E t \in T : Open(t)
  \/ \E t \in T : Write(t)
  \/ \E t \in T : Verify(t)
  \/ \E t \in T : Replace(t)
  \/ \E t \in T : HExists(t)
  \/ \E t \in T : HRemove(t)
  \/ \E t \in T : HLock(t)
  \/ \E t \in T : HAppend(t)
  \/ MainResultRaises
  \/ MainExit
  \/ MainReport

Spec == Init /\ [][Next]_vars

\* The tool run, then run again.
NextRerun == Next \/ NewRun
SpecRerun == InitFresh /\ [][NextRerun]_vars

\* =========================================================== the resolver
\* Strings are sequences of one-character strings, so that the str methods
\* the resolver uses are computed character by character.
MaxFiles == 2
MaxLines == 2

\* The characters in use, in increasing order of code point.
Ascii == <<"\n", " ", ",", ".", "/", "1",
           "A", "B", "C", "D", "E", "F", "G", "H", "I", "J", "K", "L", "M",
           "N", "O", "P", "Q", "R", "S", "T", "U", "V", "W", "X", "Y", "Z",
           "_",
           "a", "b", "c", "d", "e", "f", "g", "h", "i", "j", "k", "l", "m",
           "n", "o", "p", "q", "r", "s", "t", "u", "v", "w", "x", "y", "z">>
ord(c) == CHOOSE k \in DOMAIN Ascii : Ascii[k] = c
Whitespace == {"\n", " "}

\* str.lower: "A".."Z" are entries 7..32 of Ascii, "a".."z" entries 34..59.
lower(s) ==
  [k \in DOMAIN s |-> IF ord(s[k]) \in 7 .. 32 THEN Ascii[ord(s[k]) + 27]
                                               ELSE s[k]]

\* sub in s
contains(sub, s) ==
  \E k \in 0 .. (Len(s) - Len(sub)) : SubSeq(s, k + 1, k + Len(sub)) = sub

\* s.endswith(suffix)
endswith(s, suffix) ==
  /\ Len(suffix) <= Len(s)
  /\ SubSeq(s, Len(s) - Len(suffix) + 1, Len(s)) = suffix

\* s.strip()
RECURSIVE strip(_)
strip(s) ==
  IF s = <<>> THEN s
  ELSE IF Head(s) \in Whitespace THEN strip(Tail(s))
  ELSE IF s[Len(s)] \in Whitespace THEN strip(SubSeq(s, 1, Len(s) - 1))
  ELSE s

\* s.split(sep, 1)[0]
RECURSIVE split_first(_, _)
split_first(s, sep) ==
  IF s = <<>> \/ Head(s) = sep THEN <<>>
  ELSE <<Head(s)>> \o split_first(Tail(s), sep)

\* s.rsplit(sep, 1)[-1]
RECURSIVE rsplit_last(_, _)
rsplit_last(s, sep) ==
  IF s = <<>> \/ s[Len(s)] = sep THEN <<>>
  ELSE rsplit_last(SubSeq(s, 1, Len(s) - 1), sep) \o <<s[Len(s)]>>

\* s.replace(old, "") for a one-character old
RECURSIVE remove_all(_, _)
remove_all(s, old) ==
  IF s = <<>> THEN s
  ELSE IF Head(s) = old THEN remove_all(Tail(s), old)
  ELSE <<Head(s)>> \o remove_all(Tail(s), old)

\* os.path.join(a, b) of posixpath
join(a, b) ==
  IF b # <<>> /\ Head(b) = "/" THEN b
  ELSE IF a = <<>> \/ a[Len(a)] = "/" THEN a \o b
  ELSE a \o <<"/">> \o b

\* a < b for str: the first differing character decides, a proper prefix
\* is smaller.
RECURSIVE str_less(_, _)
str_less(a, b) ==
  IF b = <<>> THEN FALSE
  ELSE IF a = <<>> THEN TRUE
  ELSE IF Head(a) # Head(b) THEN ord(Head(a)) < ord(Head(b))
  ELSE str_less(Tail(a), Tail(b))

\* sorted(names)
RECURSIVE sorted(_)
sorted(names) ==
  IF names = <<>> THEN <<>>
  ELSE LET rest == sorted(Tail(names))
           below == SelectSeq(rest, LAMBDA n : str_less(n, Head(names)))
           above == SelectSeq(rest, LAMBDA n : ~str_less(n, Head(names)))
       IN below \o <<Head(names)>> \o above

\* [entry for entry in entries if entry.lower().endswith(ext)]
with_extension(entries, ext) ==
  SelectSeq(entries, LAMBDA e : endswith(lower(e.name), ext))

\* lines 44-53: a dict as a set of (filename, url) pairs, one per filename;
\* a later line replaces the url of an earlier line with the same filename.
RECURSIVE read_url_map_from(_, _)
read_url_map_from(lines, url_map) ==
  IF lines = <<>> THEN url_map
  ELSE LET u == strip(Head(lines))
           filename == rsplit_last(u, "/")
       IN IF u = <<>> THEN read_url_map_from(Tail(lines), url_map)
          ELSE read_url_map_from(Tail(lines),
                 {e \in url_map : e.filename # filename}
                   \cup {[filename |-> filename, url |-> u]})
read_url_map(csv) == read_url_map_from(csv.lines, {})

\* split_from_manifest with "val" tested before "train".
split_from_manifest_val_first(filename) ==
  LET lowered == lower(filename) IN
  IF contains(<<"v", "a", "l">>, lowered) THEN <<"v", "a", "l">>
  ELSE IF contains(<<"t", "r", "a", "i", "n">>, lowered)
    THEN <<"t", "r", "a", "i", "n">>
  ELSE IF contains(<<"t", "e", "s", "t">>, lowered) THEN <<"t", "e", "s", "t">>
  ELSE <<>>

\* lines 56-64; the empty string stands for None.
split_from_manifest(filename) ==
  LET lowered == lower(filename) IN
  IF contains(<<"t", "r", "a", "i", "n">>, lowered)
    THEN <<"t", "r", "a", "i", "n">>
  ELSE IF contains(<<"v", "a", "l">>, lowered) THEN <<"v", "a", "l">>
  ELSE IF contains(<<"t", "e", "s", "t">>, lowered) THEN <<"t", "e", "s", "t">>
  ELSE <<>>

\* line 70
folders == <<[folder_name |-> "DSMs", dtype |-> <<"d", "s", "m">>],
             [folder_name |-> "DTMs", dtype |-> <<"d", "t", "m">>]>>

\* args.output_root
output_root == <<"o", "u", "t">>

\* make_output_path with the region name used as it is.
make_output_path_with_dots(region, split, dtype, tile_name) ==
  LET output_name == region \o <<"_">> \o tile_name
      output_dir == join(join(output_root, split), dtype)
  IN join(output_dir, output_name)

\* lines 104-107: the destination of a tile of a region
make_output_path(region, split, dtype, tile_name) ==
  LET region_prefix == remove_all(region, ".")
      output_name == region_prefix \o <<"_">> \o tile_name
      output_dir == join(join(output_root, split), dtype)
  IN join(output_dir, output_name)

\* ------------------------------------------------------- the source tree
\* What os.listdir returns for DSMs and DTMs (in any order), or that the
\* directory does not exist. An entry is a region directory or a plain file;
\* the region names A.1 and A1 differ only in a dot.
NoDir == [isdir |-> FALSE, listing |-> <<>>]
Dir(listing) == [isdir |-> TRUE, listing |-> listing]
RegionDir(name) == [name |-> name, isdir |-> TRUE]
PlainFile(name) == [name |-> name, isdir |-> FALSE]
BaseDirs ==
  {<<Dir(<<RegionDir(<<"A", ".", "1">>)>>), NoDir>>,
   <<Dir(<<RegionDir(<<"A", "1">>), RegionDir(<<"A", ".", "1">>)>>), NoDir>>,
   <<Dir(<<RegionDir(<<"A", ".", "1">>)>>),
     Dir(<<RegionDir(<<"A", ".", "1">>)>>)>>,
   <<NoDir, Dir(<<PlainFile(<<"A">>), RegionDir(<<"A", "1">>)>>)>>}

\* The url lists of a region directory: none, or two of which the first
\* listed is read; it has a blank line and names the file t twice. A url
\* list is no manifest, whatever its name.
CsvEntries ==
  {<<>>,
   <<[name |-> <<"t", "r", "a", "i", "n", ".", "C", "S", "V">>,
      lines |-> <<<<"h", "/", "t", "\n">>, <<"\n">>, <<"g", "/", "t", "\n">>>>],
     [name |-> <<"v", ".", "c", "s", "v">>,
      lines |-> <<<<"h", "/", "t", "\n">>>>]>>}

\* Names of the other files of a region directory.
ManifestNames ==
  {<<"T", "r", "a", "i", "n", ".", "t", "x", "t">>,
   <<"l", "a", "t", "e", "s", "t", ".", "t", "x", "t">>,
   <<"v", "a", "l", "_", "t", "r", "a", "i", "n", ".", "t", "x", "t">>,
   <<"t", "e", "s", "t", "_", "V", "A", "L", ".", "T", "X", "T">>,
   <<"n", "o", "t", "e", "s", ".", "t", "x", "t">>}

\* Lines of a split file: a tile of the url list with a second column, a
\* line of whitespace, a tile the url list does not have.
ManifestLines ==
  {<<" ", "t", ",", "x", "\n">>, <<" ", "\n">>, <<"u", "\n">>}

SeqsUpTo(S, n) == UNION {[1 .. k -> S] : k \in 0 .. n}

\* Every region directory holds the same files: the url lists, then up to
\* MaxFiles other files, each with the same lines (up to MaxLines).
SourceTrees ==
  {[base |-> b,
    entries |-> c \o [k \in DOMAIN ns |-> [name |-> ns[k], lines |-> ls]]] :
     b \in BaseDirs, c \in CsvEntries,
     ns \in SeqsUpTo(ManifestNames, MaxFiles),
     ls \in SeqsUpTo(ManifestLines, MaxLines)}

\* The variables of the download model.
dlvars == <<tasks, missing_urls, threads, remote, run, taskpc, remote_size,
            exc, handle, pos, final, part, files, failures, lock, mainpc,
            log_file, summary, prev, touched>>

\* ---------------------------------------------------------- collect_tasks
\* ct.origin[k] is the folder, split and tile name of the line that made
\* ct.tasks[k].

\* lines 70-74: the next of DSMs, DTMs
CtFolder ==
  /\ ct.pc = "folder"
  /\ ct.folder <= Len(folders)
  /\ LET base == ct.tree.base[ct.folder] IN
     ct' = IF ~base.isdir
             THEN [ct EXCEPT !.folder = @ + 1]
             ELSE [ct EXCEPT !.pc = "region",
                             !.regions = sorted([k \in DOMAIN base.listing |->
                                                   base.listing[k].name]),
                             !.region = 1]
  /\ UNCHANGED dlvars

\* lines 74-91: the next region of the folder
CtRegion ==
  /\ ct.pc = "region"
  /\ LET base == ct.tree.base[ct.folder]
         region == ct.regions[ct.region]
         isdir == \E k \in DOMAIN base.listing :
                    base.listing[k].name = region /\ base.listing[k].isdir
         csv_files == with_extension(ct.tree.entries, <<".", "c", "s", "v">>)
         manifest_files ==
           with_extension(ct.tree.entries, <<".", "t", "x", "t">>)
     IN
     ct' = IF ct.region > Len(ct.regions)
             THEN [ct EXCEPT !.pc = "folder", !.folder = @ + 1,
                             !.regions = <<>>, !.region = 0]
           ELSE IF ~isdir \/ csv_files = <<>>
             THEN [ct EXCEPT !.region = @ + 1]
           ELSE [ct EXCEPT !.pc = "manifest",
                           !.url_map = read_url_map(csv_files[1]),
                           !.manifest_files = manifest_files,
                           !.manifest = 1]
  /\ UNCHANGED dlvars

\* lines 92-97: the next manifest of the region
CtManifest ==
  /\ ct.pc = "manifest"
  /\ LET split == split_from_manifest(ct.manifest_files[ct.manifest].name) IN
     ct' = IF ct.manifest > Len(ct.manifest_files)
             THEN [ct EXCEPT !.pc = "region", !.region = @ + 1,
                             !.url_map = {}, !.manifest_files = <<>>,
                             !.manifest = 0]
           ELSE IF split = <<>>
             THEN [ct EXCEPT !.manifest = @ + 1]
           ELSE [ct EXCEPT !.pc = "line", !.split = split, !.line = 1]
  /\ UNCHANGED dlvars

\* CtLine with a tile that has no url passed over.
CtLineDropsMissing ==
  /\ ct.pc = "line"
  /\ LET lines == ct.manifest_files[ct.manifest].lines
         region == ct.regions[ct.region]
         dtype == folders[ct.folder].dtype
         line == strip(lines[ct.line])
         tile_name == split_first(line, ",")
         found == {e \in ct.url_map : e.filename = tile_name}
         path == make_output_path(region, ct.split, dtype, tile_name)
     IN
     ct' = IF ct.line > Len(lines)
             THEN [ct EXCEPT !.pc = "manifest", !.manifest = @ + 1,
                             !.split = <<>>, !.line = 0]
           ELSE IF line = <<>>
             THEN [ct EXCEPT !.line = @ + 1]
           ELSE IF found = {}
             THEN [ct EXCEPT !.line = @ + 1]
           ELSE [ct EXCEPT !.line = @ + 1,
                           !.tasks = Append(@,
                              [region |-> region,
                               url |-> (CHOOSE e \in found : TRUE).url,
                               output_path |-> path]),
                           !.origin = Append(@,
                              [folder_name |-> folders[ct.folder].folder_name,
                               split |-> ct.split,
                               tile_name |-> tile_name])]
  /\ UNCHANGED dlvars

\* lines 98-117: the next line of the manifest
CtLine ==
  /\ ct.pc = "line"
  /\ LET lines == ct.manifest_files[ct.manifest].lines
         region == ct.regions[ct.region]
         dtype == folders[ct.folder].dtype
         line == strip(lines[ct.line])
         tile_name == split_first(line, ",")
         found == {e \in ct.url_map : e.filename = tile_name}
         path == make_output_path(region, ct.split, dtype, tile_name)
     IN
     ct' = IF ct.line > Len(lines)
             THEN [ct EXCEPT !.pc = "manifest", !.manifest = @ + 1,
                             !.split = <<>>, !.line = 0]
           ELSE IF line = <<>>
             THEN [ct EXCEPT !.line = @ + 1]
           ELSE IF found = {}
             THEN [ct EXCEPT !.line = @ + 1,
                             !.missing_urls = Append(@, <<region, tile_name>>)]
           ELSE [ct EXCEPT !.line = @ + 1,
                           !.tasks = Append(@,
                              [region |-> region,
                               url |-> (CHOOSE e \in found : TRUE).url,
                               output_path |-> path]),
                           !.origin = Append(@,
                              [folder_name |-> folders[ct.folder].folder_name,
                               split |-> ct.split,
                               tile_name |-> tile_name])]
  /\ UNCHANGED dlvars

\* line 118
CtReturn ==
  /\ ct.pc = "folder"
  /\ ct.folder > Len(folders)
  /\ ct' = [ct EXCEPT !.pc = "returned"]
  /\ UNCHANGED dlvars

\* lines 68-69: the call of collect_tasks over a source tree
CtCall(tree) ==
  [pc |-> "folder", tree |-> tree, folder |-> 1, regions |-> <<>>,
   region |-> 0, url_map |-> {}, manifest_files |-> <<>>, manifest |-> 0,
   split |-> <<>>, line |-> 0, tasks |-> <<>>, missing_urls |-> <<>>,
   origin |-> <<>>]

\* main calls collect_tasks (line 180); nothing is downloaded yet.
InitCollect ==
  /\ InitRun
  /\ tasks = <<>>
  /\ missing_urls = 0
  /\ threads = 1
  /\ final = [d \in Dests |-> 0]
  /\ part = [d \in Dests |-> 0]
  /\ files = [i \in Inodes |-> <<>>]
  /\ log_file = NoLog
  /\ ct \in {CtCall(tree) : tree \in SourceTrees}

NextCollect ==
  \/ CtFolder
  \/ CtRegion
  \/ CtManifest
  \/ CtLine
  \/ CtReturn

SpecCollect == InitCollect /\ [][NextCollect]_vars


\* ================================================================ claims
RecordsOf(t, fs) == {k \in DOMAIN fs : fs[k].task = t}
Returns(t) == taskpc[t] \notin Finished /\ taskpc'[t] \in Finished

\* The file at final path d is whole when it is the untouched file that was
\* there before the run, or holds the complete body of the url of a task
\* with that output path.
IsWhole(d) ==
  \/ final[d] \in Dests
  \/ \E t \in T : output_path(t) = d /\ files[final[d]] = Body(url(t))

\* C1 (as claimed): the file at a final path is never a partially written
\* body; incomplete bytes exist only at the staging path.
C1_FinalNeverPartial ==
  \A d \in Dests : final[d] # 0 => IsWhole(d)

\* C2 (as claimed): when a task with a known remote size returns without a
\* failure record, a file of exactly that size is at its output path.
C2_ReturnedSizeMatches ==
  [][\A t \in T :
       (Returns(t) /\ taskpc'[t] \in {"ok", "skipped"} /\ remote_size'[t] # None)
         => /\ final'[output_path(t)] # 0
            /\ Len(files'[final'[output_path(t)]]) = remote_size'[t]]_vars

\* C3 (as claimed): a task that ends on a size mismatch leaves no file at
\* its final path and exactly one record, with the size-mismatch reason.
C3_MismatchLeavesNoFinal ==
  [][\A t \in T :
       (Returns(t) /\ exc[t] = "size mismatch")
         => /\ final'[output_path(t)] = 0
            /\ Cardinality(RecordsOf(t, failures')) = 1
            /\ \A k \in RecordsOf(t, failures') :
                 failures'[k].reason = "size mismatch"]_vars

\* C4 (as claimed): past the skip test download_task never propagates an
\* exception: it ends with the staging path removed and one failure record.
C4_NeverPropagates ==
  [][\A t \in T :
       (taskpc[t] \in Active /\ Returns(t))
         => /\ taskpc'[t] # "raised"
            /\ taskpc'[t] = "failed" =>
                 Cardinality(RecordsOf(t, failures')) = 1]_vars

\* C5 (as claimed): whatever way the size probe fails, the task goes on to
\* the skip test with remote_size unknown and no failure record.
C5_ProbeFailureIsUnknown ==
  [][\A t \in T :
       (taskpc[t] = "queued" /\ taskpc'[t] # "queued")
         => /\ taskpc'[t] \in {"skipped", "stale"}
            /\ failures' = failures]_vars

\* C6 (as claimed): once a download_task call has ended, by skip, success
\* or recorded failure, no file is at its staging path.
C6_NoPartAfterReturn ==
  \A t \in T : taskpc[t] \in {"skipped", "ok", "failed"}
                 => part[output_path(t)] = 0

\* C7 (as claimed): in a second run over unchanged remotes, a task that
\* completed in the first run and is probed as before takes the skip branch.
C7_SecondRunSkips ==
  [][\A t \in T :
       (/\ run = 2
        /\ prev[t].pc \in {"ok", "skipped"}
        /\ taskpc[t] = "queued" /\ taskpc'[t] # "queued"
        /\ taskpc'[t] # "raised"
        /\ remote_size'[t] = prev[t].size)
         => taskpc'[t] = "skipped"]_vars

\* C8: a failed task cancels nothing: no task is ever cancelled, main ends
\* (report or traceback) only when every submitted task has run to its end,
\* and the summary and this run's log exist only after that.
C8_FailureCancelsNothing ==
  /\ \A t \in T : taskpc[t] # "cancelled"
  /\ mainpc \in {"done", "crashed"} =>
       \A t \in T : taskpc[t] \in {"skipped", "ok", "failed", "raised"}
  /\ summary # <<>> => AllFinished

\* C8 witness: with one thread, a task raised, the next task still ran to a
\* successful end after it, and main has ended.
C8_Witness ==
  /\ threads = 1
  /\ mainpc = "crashed"
  /\ \E t, s \in T : t < s /\ taskpc[t] = "raised" /\ taskpc[s] = "ok"

\* C9 (as claimed): when main has ended, exactly one summary line has been
\* printed.
C9_EndsWithSummary ==
  mainpc \in {"done", "crashed"} => Len(summary) = 1

\* C10 (as claimed): after a run that ends with no failure record, no log
\* file exists, whatever earlier runs left.
C10_NoLogWithoutFailures ==
  (mainpc = "done" /\ failures = <<>>) => ~log_file.exists

\* C11 (as claimed): after a run with at least one failure the log holds
\* exactly this run's records: one for each task whose download failed, one
\* for each missing url, and the count printed is the number of its lines.
C11_LogHoldsThisRun ==
  (/\ mainpc \in {"done", "crashed"}
   /\ \/ missing_urls > 0
      \/ \E t \in T : taskpc[t] = "failed")
    => /\ log_file.exists
       /\ \A t \in T : Cardinality(RecordsOf(t, log_file.lines)) =
                          IF taskpc[t] = "failed" THEN 1 ELSE 0
       /\ Cardinality(RecordsOf(0, log_file.lines)) = missing_urls
       /\ summary = <<Len(log_file.lines)>>

C16_OwnStagingFile ==
  \A t \in T :
    handle[t] # 0
      => /\ part[tasks[t].output_path] = handle[t]
         /\ \A s \in T \ {t} : handle[s] # handle[t]

\* C17 (as claimed): appends to the failure list exclude each other, a task
\* has at most one record, and once every task has run the failure list has
\* as many records as there are tasks whose download failed (here: tasks
\* that were probed with a size and ended neither by skip nor by success).
C17_RecordPerFailedTask ==
  /\ Cardinality({t \in T : taskpc[t] = "h_append"}) <= 1
  /\ \A t \in T : Cardinality(RecordsOf(t, failures)) <= 1
  /\ (/\ AllFinished
      /\ mainpc # "done"
      /\ \A t \in T : remote_size[t] # None)
       => Len(failures) =
            Cardinality({t \in T : taskpc[t] \notin {"ok", "skipped"}})

C19_FailureLeavesFinal ==
  \A t \in T : taskpc[t] = "failed" => t \notin touched

\* ------------------------------------------------- claims on the resolver
\* The same letter, in either case.
SameLetter(a, b) ==
  \/ a = b
  \/ ord(a) \in 7 .. 32 /\ ord(b) = ord(a) + 27
  \/ ord(b) \in 7 .. 32 /\ ord(a) = ord(b) + 27

\* word occurs in name, compared without regard to case.
Occurs(word, name) ==
  \E k \in 0 .. (Len(name) - Len(word)) :
    \A j \in DOMAIN word : SameLetter(name[k + j], word[j])

Train == <<"t", "r", "a", "i", "n">>
Val == <<"v", "a", "l">>
Test == <<"t", "e", "s", "t">>
IsSplitFile(e) ==
  /\ Len(e.name) >= 4
  /\ Occurs(<<".", "t", "x", "t">>, SubSeq(e.name, Len(e.name) - 3, Len(e.name)))
  /\ Occurs(Train, e.name) \/ Occurs(Val, e.name) \/ Occurs(Test, e.name)
IsUrlList(e) ==
  /\ Len(e.name) >= 4
  /\ Occurs(<<".", "c", "s", "v">>, SubSeq(e.name, Len(e.name) - 3, Len(e.name)))
NonEmpty(line) == \E k \in DOMAIN line : line[k] \notin Whitespace
Count(seq, P(_)) == Cardinality({k \in DOMAIN seq : P(seq[k])})
IsRegionDir(e) == e.isdir

\* The number of non-empty lines of classified split files under the
\* region directories that have a url list.
LinesToResolve(tree) ==
  LET regions == Count(tree.base[1].listing, IsRegionDir)
                   + Count(tree.base[2].listing, IsRegionDir)
      split_files == {k \in DOMAIN tree.entries : IsSplitFile(tree.entries[k])}
      lines == IF split_files = {} THEN 0
               ELSE Count(tree.entries[CHOOSE k \in split_files : TRUE].lines,
                          NonEmpty)
  IN IF Count(tree.entries, IsUrlList) = 0 THEN 0
     ELSE regions * Cardinality(split_files) * lines

\* s extends r by exactly one element.
GrowsByOne(r, s) == Len(s) = Len(r) + 1 /\ SubSeq(s, 1, Len(r)) = r

\* C12: collect_tasks adds, for each non-empty line of each classified split
\* file, exactly one element to exactly one of tasks and missing_urls, and
\* nothing for any other line or file: when it returns, the two lists
\* together have one element per such line.
C12_OnePerLine ==
  [][/\ (ct.pc = "line" /\ ct'.line = ct.line + 1)
          => IF NonEmpty(ct.manifest_files[ct.manifest].lines[ct.line])
               THEN \/ /\ GrowsByOne(ct.tasks, ct'.tasks)
                       /\ ct'.missing_urls = ct.missing_urls
                    \/ /\ GrowsByOne(ct.missing_urls, ct'.missing_urls)
                       /\ ct'.tasks = ct.tasks
               ELSE /\ ct'.tasks = ct.tasks
                    /\ ct'.missing_urls = ct.missing_urls
     /\ ~(ct.pc = "line" /\ ct'.line = ct.line + 1)
          => ct'.tasks = ct.tasks /\ ct'.missing_urls = ct.missing_urls
     /\ ct'.pc = "returned"
          => Len(ct'.tasks) + Len(ct'.missing_urls) = LinesToResolve(ct.tree)
    ]_vars

\* C12 witness: collect_tasks has returned tasks and missing urls from a
\* tree with two regions.
C12_Witness ==
  /\ ct.pc = "returned"
  /\ Len(ct.tasks) >= 2
  /\ Len(ct.missing_urls) >= 2
  /\ \E j, k \in DOMAIN ct.tasks : ct.tasks[j].region # ct.tasks[k].region

\* The split the claim gives a manifest name.
ClaimedSplit(name) ==
  IF Occurs(Train, name) THEN Train
  ELSE IF Occurs(Val, name) THEN Val
  ELSE IF Occurs(Test, name) THEN Test
  ELSE <<>>

\* C13: a manifest is classified by the first of train, val, test that
\* occurs in its name without regard to case; the lines of a manifest whose
\* name has none of them are not read and add no task and no missing url.
C13_SplitPriority ==
  [][(ct.pc = "manifest" /\ ct.manifest <= Len(ct.manifest_files))
       => LET name == ct.manifest_files[ct.manifest].name IN
          IF ClaimedSplit(name) = <<>>
            THEN /\ ct'.pc = "manifest"
                 /\ ct'.manifest = ct.manifest + 1
                 /\ ct'.tasks = ct.tasks
                 /\ ct'.missing_urls = ct.missing_urls
            ELSE /\ ct'.pc = "line"
                 /\ ct'.manifest = ct.manifest
                 /\ ct'.split = ClaimedSplit(name)]_vars

\* C13 witness: test_VAL.TXT is being read as a val file, after notes.txt
\* was passed over.
C13_Witness ==
  /\ ct.pc = "line"
  /\ ct.manifest = 2
  /\ ct.manifest_files[1].name = <<"n", "o", "t", "e", "s", ".", "t", "x", "t">>
  /\ ct.manifest_files[2].name =
       <<"t", "e", "s", "t", "_", "V", "A", "L", ".", "T", "X", "T">>
  /\ ct.split = Val
  /\ ct.tasks = <<>> /\ ct.missing_urls = <<>>

\* C14: a task carries the region name as listed, the url the region's url
\* list has for the tile, and the destination
\* <output_root>/<split>/<dsm|dtm>/<region without dots>_<tile_name>.
C14_TaskFields ==
  [][(ct.pc = "line" /\ Len(ct'.tasks) > Len(ct.tasks))
       => LET task == ct'.tasks[Len(ct'.tasks)]
              region == ct.regions[ct.region]
              tile_name ==
                split_first(strip(ct.manifest_files[ct.manifest].lines[ct.line]),
                            ",")
              type == IF ct.folder = 1 THEN <<"d", "s", "m">>
                                       ELSE <<"d", "t", "m">>
          IN /\ task.region = region
             /\ \E k \in DOMAIN ct.tree.base[ct.folder].listing :
                  ct.tree.base[ct.folder].listing[k].name = task.region
             /\ [filename |-> tile_name, url |-> task.url] \in ct.url_map
             /\ rsplit_last(task.url, "/") = tile_name
             /\ task.output_path =
                  output_root \o <<"/">> \o ClaimedSplit(
                      ct.manifest_files[ct.manifest].name) \o <<"/">> \o type
                    \o <<"/">> \o SelectSeq(region, LAMBDA c : c # ".")
                    \o <<"_">> \o tile_name]_vars

\* C14 witness: tile t of region A.1 of DSMs, listed in test_VAL.TXT, is the task
\* (A.1, g/t, out/val/dsm/A1_t).
C14_Witness ==
  \E k \in DOMAIN ct.tasks :
    ct.tasks[k] = [region |-> <<"A", ".", "1">>,
                   url |-> <<"g", "/", "t">>,
                   output_path |-> <<"o", "u", "t", "/", "v", "a", "l", "/",
                                     "d", "s", "m", "/", "A", "1", "_", "t">>]

\* C20 (as claimed): two tasks have the same destination only if they come
\* from the same type root, the same split, the same region and the same
\* tile name, and then they carry the same url.
C20_SamePathSameTile ==
  \A j, k \in DOMAIN ct.tasks :
    ct.tasks[j].output_path = ct.tasks[k].output_path
      => /\ ct.origin[j] = ct.origin[k]
         /\ ct.tasks[j].region = ct.tasks[k].region
         /\ ct.tasks[j].url = ct.tasks[k].url

====
